---- MODULE Spec2Model ----
(***************************************************************************)
(* Model of caido_auth (packages/caido-auth): the device-code              *)
(* authentication flow of CaidoAuth (client.py), the decoders and          *)
(* exceptions of models.py and the response shapes of queries.py.          *)
(*                                                                         *)
(* A Python dict is a function whose DOMAIN is the set of its keys.  A     *)
(* key whose JSON value is null is modelled as an absent key where the     *)
(* code reads it with dict.get (which returns None for both).              *)
(***************************************************************************)
EXTENDS Integers, Sequences, FiniteSets, TLC

\* flow and refresh: the invocations of start_authentication_flow and of
\* refresh_token, by invocation; auth: the attributes of the CaidoAuth
\* instance; probe: a function of models.py evaluated on its own.
VARIABLES flow, refresh, auth, probe

vars == <<flow, refresh, auth, probe>>

\* Notifications one subscription delivers before the model stops delivering.
MaxItems == 2

FlowIds == {"flow1"}

RefreshIds == {"refresh1"}

----------------------------------------------------------------------------
\* Python values

None == "<None>"

EmptyDict == <<>>

\* `if d.get(k):` for an object-valued key: false for a missing key, for
\* null and for an empty object.
Truthy(d, k) == k \in DOMAIN d /\ DOMAIN d[k] # {}

\* d.get(k, default) for a string-valued key.
DictGet(d, k, default) == IF k \in DOMAIN d THEN d[k] ELSE default

Without(d, k) == [x \in DOMAIN d \ {k} |-> d[x]]

Ok(v) == [ok |-> TRUE, value |-> v]

Raise(e) == [ok |-> FALSE, exc |-> e]

----------------------------------------------------------------------------
\* Exceptions (models.py) and the ones Python raises itself

AuthenticationError(text) == [kind |-> "AuthenticationError", text |-> text]

AuthenticationFlowError(reason, message) ==
    [kind |-> "AuthenticationFlowError", reason |-> reason,
     message |-> message, text |-> reason \o ": " \o message]

TokenRefreshError(reason, message) ==
    [kind |-> "TokenRefreshError", reason |-> reason,
     message |-> message, text |-> reason \o ": " \o message]

KeyError(key) == [kind |-> "KeyError", key |-> key]

ValueError(what) == [kind |-> "ValueError", what |-> what]

\* Whatever the caller's callback raised, unchanged.
CallbackError == [kind |-> "CallbackError"]

\* What an await can raise besides a result: the transport's own failure,
\* or the cancellation of the task.
AwaitExceptions == {[kind |-> "TransportError"], [kind |-> "CancelledError"]}

Returned(token) == [kind |-> "return", value |-> token]

NoOutcome == [kind |-> "none"]

----------------------------------------------------------------------------
\* Timestamps.  A wire timestamp is its clock reading and its zone suffix.

StampZ == [clock |-> 10, suffix |-> "Z"]

StampPlus1 == [clock |-> 11, suffix |-> "+01:00"]

StampNaive == [clock |-> 10, suffix |-> ""]

StampBad == [clock |-> 10, suffix |-> "garbage"]

\* str.replace("Z", "+00:00")
ReplaceZ(s) == IF s.suffix = "Z" THEN [s EXCEPT !.suffix = "+00:00"] ELSE s

IsoOffsets == {"+00:00", "+01:00", "-05:00"}

OffsetMinutes(suffix) ==
    CASE suffix = "+00:00" -> 0
      [] suffix = "+01:00" -> 60
      [] suffix = "-05:00" -> 0 - 300

\* datetime.fromisoformat: an aware datetime for a suffix that is an
\* offset, a naive one for no suffix, ValueError otherwise.
FromIsoFormat(s) ==
    IF s.suffix \in IsoOffsets
    THEN Ok([clock |-> s.clock, aware |-> TRUE, utcoffset |-> OffsetMinutes(s.suffix)])
    ELSE IF s.suffix = ""
    THEN Ok([clock |-> s.clock, aware |-> FALSE, utcoffset |-> 0])
    ELSE Raise(ValueError("isoformat"))

----------------------------------------------------------------------------
\* AuthenticationScope

ScopeNames == {"ASSISTANT", "OFFLINE", "PROFILE_READ"}

ScopeValue(name) ==
    CASE name = "ASSISTANT" -> "ASSISTANT"
      [] name = "OFFLINE" -> "OFFLINE"
      [] name = "PROFILE_READ" -> "PROFILE_READ"

\* The value kept as it is, whether or not a member has it.
AuthenticationScopeLenient(value) == Ok(<<"AuthenticationScope", value>>)

\* AuthenticationScope(value): the member with that value, else ValueError.
AuthenticationScope(value) ==
    IF \E n \in ScopeNames : ScopeValue(n) = value
    THEN Ok(<<"AuthenticationScope", CHOOSE n \in ScopeNames : ScopeValue(n) = value>>)
    ELSE Raise(ValueError("scope"))

----------------------------------------------------------------------------
\* Decoders

RequestFromGraphql(data) ==
    IF "id" \notin DOMAIN data THEN Raise(KeyError("id"))
    ELSE IF "userCode" \notin DOMAIN data THEN Raise(KeyError("userCode"))
    ELSE IF "verificationUrl" \notin DOMAIN data THEN Raise(KeyError("verificationUrl"))
    ELSE IF "expiresAt" \notin DOMAIN data THEN Raise(KeyError("expiresAt"))
    ELSE LET dt == FromIsoFormat(ReplaceZ(data.expiresAt))
         IN  IF ~dt.ok THEN dt
             ELSE Ok([id |-> data.id,
                      user_code |-> data.userCode,
                      verification_url |-> data.verificationUrl,
                      expires_at |-> dt.value])

TokenFromGraphql(data) ==
    IF "accessToken" \notin DOMAIN data THEN Raise(KeyError("accessToken"))
    ELSE IF "expiresAt" \notin DOMAIN data THEN Raise(KeyError("expiresAt"))
    ELSE LET dt == FromIsoFormat(ReplaceZ(data.expiresAt))
         IN  IF ~dt.ok THEN dt
             ELSE IF "scopes" \notin DOMAIN data THEN Raise(KeyError("scopes"))
             ELSE IF \E i \in DOMAIN data.scopes : ~AuthenticationScope(data.scopes[i]).ok
             THEN Raise(ValueError("scope"))
             ELSE Ok([access_token |-> data.accessToken,
                      expires_at |-> dt.value,
                      scopes |-> [i \in DOMAIN data.scopes |->
                                     AuthenticationScope(data.scopes[i]).value],
                      refresh_token |-> DictGet(data, "refreshToken", None)])

\* The chain with code looked up before reason.
ErrorReasonCodeFirst(error) ==
    DictGet(error, "code", DictGet(error, "reason", "UNKNOWN"))

\* error.get("reason", error.get("code", "UNKNOWN"))
ErrorReason(error) == DictGet(error, "reason", DictGet(error, "code", "UNKNOWN"))

\* error.get("message", <the operation's default>)
ErrorMessage(error, default) == DictGet(error, "message", default)

----------------------------------------------------------------------------
\* What the server can answer (queries.py).  Every field of an error object
\* is optional: which ones are present depends on the error's type.

ErrorValue(k) ==
    CASE k = "code" -> "EXPIRED"
      [] k = "reason" -> "RATE_LIMITED"
      [] k = "message" -> "slow down"

\* The field sets of the error types the three operations select (code and
\* reason, code and message, code alone), of the error of the spec's
\* scenario B (all three), of an error with a message only, and of an error
\* of a type no fragment selects (no field at all).
ErrorShapes ==
    {{"code", "reason"}, {"code", "message"}, {"code"},
     {"code", "reason", "message"}, {"message"}, {}}

ErrorObjects == {[k \in S |-> ErrorValue(k)] : S \in ErrorShapes}

RequestIds == {"r1", "r2"}

RequestObject(id, stamp) ==
    [id |-> id, userCode |-> "ABCD-1234",
     verificationUrl |-> "https://x/verify", expiresAt |-> stamp]

RequestObjects ==
    {RequestObject(id, StampZ) : id \in RequestIds}
        \cup {RequestObject("r1", StampBad),
              Without(RequestObject("r1", StampZ), "userCode"),
              EmptyDict}

TokenA == [accessToken |-> "tok_abc", expiresAt |-> StampZ, scopes |-> <<"OFFLINE">>]

TokenB ==
    [accessToken |-> "tok_xyz", expiresAt |-> StampPlus1,
     scopes |-> <<"ASSISTANT", "PROFILE_READ">>, refreshToken |-> "rt_1"]

\* Token objects of the notifications, and of the refresh responses.
NotifiedTokens ==
    {TokenA, TokenB, [TokenA EXCEPT !.scopes = <<"OFFLINE", "ADMIN">>]}

RefreshedTokens ==
    {TokenB, [TokenB EXCEPT !.expiresAt = StampBad], Without(TokenA, "scopes"),
     EmptyDict}

\* The payloads with a success branch under `key`, an error branch, both or
\* neither.
Payloads(key, objects) ==
    {[k \in {key, "error"} |-> IF k = key THEN s ELSE e] :
        s \in objects, e \in ErrorObjects}
        \cup {[k \in {key} |-> s] : s \in objects}
        \cup {[k \in {"error"} |-> e] : e \in ErrorObjects}
        \cup {EmptyDict}

StartPayloads == Payloads("request", RequestObjects)

NotificationPayloads == Payloads("token", NotifiedTokens)

RefreshPayloads == Payloads("token", RefreshedTokens)

\* A notification on a subscription: its payload, and the request the
\* server created it for (which no field of the payload shows).
Notifications == [payload : NotificationPayloads, requestId : RequestIds]

Callbacks == {"none", "returns", "raises"}

RefreshTokens == {"rt_1", "rt_2"}

----------------------------------------------------------------------------
\* State

NoConnection == [opens |-> 0, closes |-> 0]

\* `async with Client(...) as session:` entered, and left (on every way out
\* of the block).
EnterClient(conn) == [conn EXCEPT !.opens = @ + 1]

ExitClientLeak(conn) == conn

ExitClient(conn) == [conn EXCEPT !.closes = @ + 1]

IsOpen(conn) == conn.opens > conn.closes

\* One invocation of start_authentication_flow.  `results` holds what
\* session.execute returned (once it has), `subscribed` the variable_values
\* of every subscription opened, `consumed` the items the `async for` took,
\* `callback_args` the argument of every call of on_request.
InitFlow ==
    [pc |-> "NotStarted",
     on_request |-> "none",
     sent |-> 0,
     results |-> <<>>,
     auth_request |-> EmptyDict,
     callback_args |-> <<>>,
     subscribed |-> <<>>,
     consumed |-> <<>>,
     stream_ended |-> FALSE,
     http |-> NoConnection,
     ws |-> NoConnection,
     outcome |-> NoOutcome]

\* One invocation of refresh_token.
InitRefresh ==
    [pc |-> "NotStarted",
     refresh_token |-> None,
     sent |-> <<>>,
     results |-> <<>>,
     http |-> NoConnection,
     outcome |-> NoOutcome]

\* A URL as urlparse splits it.
Url(scheme, netloc, path) == [scheme |-> scheme, netloc |-> netloc, path |-> path]

\* The instance URLs a caller constructs CaidoAuth with.
InstanceUrls ==
    {Url("http", "localhost:8080", ""),
     Url("https", "caido.example", "/")}

\* str.rstrip("/") of a path that is "" or "/".
RStripSlash(url) == [url EXCEPT !.path = IF @ = "/" THEN "" ELSE @]

\* urljoin(base, "/graphql"): an absolute path replaces the base's path.
UrlJoin(base, path) == [base EXCEPT !.path = path]

\* CaidoAuth._get_websocket_url.
GetWebsocketUrl(instance_url) ==
    Url(IF instance_url.scheme = "https" THEN "wss" ELSE "ws",
        instance_url.netloc, "/ws/graphql")

\* CaidoAuth.__init__: the attributes of the instance.
CaidoAuth(instance_url) ==
    LET stripped == RStripSlash(instance_url)
    IN  [instance_url |-> stripped,
         _graphql_url |-> UrlJoin(stripped, "/graphql"),
         _websocket_url |-> GetWebsocketUrl(stripped)]

\* No function of models.py is being exercised on its own.
NoProbe == [op |-> "none"]

Init ==
    /\ flow = [f \in FlowIds |-> InitFlow]
    /\ refresh = [r \in RefreshIds |-> InitRefresh]
    /\ auth = CaidoAuth(Url("http", "localhost:8080", ""))
    /\ probe = NoProbe

Fails(s, exc) == [s EXCEPT !.pc = "Failed", !.outcome = exc]

----------------------------------------------------------------------------
\* start_authentication_flow

\* Lines 71-76: the HTTP client is entered and the mutation sent.
BeginFlow(f, cb) ==
    /\ flow[f].pc = "NotStarted"
    /\ flow' = [flow EXCEPT ![f] =
                   [@ EXCEPT !.pc = "AwaitingRequest",
                             !.on_request = cb,
                             !.sent = @ + 1,
                             !.http = EnterClient(@)]]
    /\ UNCHANGED <<refresh, auth, probe>>

\* Lines 79-83.
StartErrorBranch(s, error) ==
    Fails(s, AuthenticationFlowError(
                 ErrorReason(error),
                 ErrorMessage(error, "Authentication flow failed")))

StartNoRequestRetries(s) == [s EXCEPT !.pc = "NotStarted"]

\* Lines 85-88.
StartNoRequest(s) ==
    Fails(s, AuthenticationFlowError(
                 "NO_REQUEST", "No authentication request returned"))

\* Line 90.
StartDecodeRequest(s, data) ==
    LET decoded == RequestFromGraphql(data)
    IN  IF decoded.ok
        THEN [s EXCEPT !.pc = "RequestDecoded", !.auth_request = decoded.value]
        ELSE Fails(s, decoded.exc)

\* Lines 76-90 with the request looked at before the error.
AfterStartResponseRequestFirst(s, payload) ==
    LET left == [s EXCEPT !.results = Append(@, payload), !.http = ExitClient(@)]
    IN  IF Truthy(payload, "request") THEN StartDecodeRequest(left, payload.request)
        ELSE IF Truthy(payload, "error") THEN StartErrorBranch(left, payload.error)
        ELSE StartNoRequest(left)

\* Lines 76-90: the response arrives; every way out of the block leaves the
\* client.
AfterStartResponse(s, payload) ==
    LET left == [s EXCEPT !.results = Append(@, payload), !.http = ExitClient(@)]
    IN  IF Truthy(payload, "error") THEN StartErrorBranch(left, payload.error)
        ELSE IF ~Truthy(payload, "request") THEN StartNoRequest(left)
        ELSE StartDecodeRequest(left, payload.request)

StartResponse(f, payload) ==
    /\ flow[f].pc = "AwaitingRequest"
    /\ flow' = [flow EXCEPT ![f] = AfterStartResponse(@, payload)]
    /\ UNCHANGED <<refresh, auth, probe>>

\* Lines 93-94, the callback swallowed instead of propagated.
AfterNotifyCaught(s) ==
    IF s.on_request = "none"
    THEN [s EXCEPT !.pc = "Notified"]
    ELSE [s EXCEPT !.pc = "Notified",
                   !.callback_args = Append(@, s.auth_request)]

\* Lines 93-94.
AfterNotify(s) ==
    IF s.on_request = "none"
    THEN [s EXCEPT !.pc = "Notified"]
    ELSE LET called == [s EXCEPT !.callback_args = Append(@, s.auth_request)]
         IN  IF s.on_request = "raises"
             THEN Fails(called, CallbackError)
             ELSE [called EXCEPT !.pc = "Notified"]

NotifyCaller(f) ==
    /\ flow[f].pc = "RequestDecoded"
    /\ flow' = [flow EXCEPT ![f] = AfterNotify(@)]
    /\ UNCHANGED <<refresh, auth, probe>>

\* Line 97 with another field of the request as the subscription's key.
AfterSubscribeUserCode(s) ==
    [s EXCEPT !.pc = "AwaitingApproval",
              !.ws = EnterClient(@),
              !.subscribed = Append(@, [requestId |-> s.auth_request.user_code])]

\* Line 97 and lines 113-122: the websocket client is entered and the
\* subscription opened with variable_values {"requestId": request_id}.
AfterSubscribe(s) ==
    [s EXCEPT !.pc = "AwaitingApproval",
              !.ws = EnterClient(@),
              !.subscribed = Append(@, [requestId |-> s.auth_request.id])]

\* The request id kept in one place for all invocations instead of a local.
OpenSubscriptionShared(f) ==
    /\ flow[f].pc = "Notified"
    /\ \E g \in DOMAIN flow :
           /\ flow[g].auth_request # EmptyDict
           /\ flow' = [flow EXCEPT ![f] =
                          [AfterSubscribe(@) EXCEPT
                               !.subscribed =
                                   <<[requestId |-> flow[g].auth_request.id]>>]]
    /\ UNCHANGED <<refresh, auth, probe>>

OpenSubscription(f) ==
    /\ flow[f].pc = "Notified"
    /\ flow' = [flow EXCEPT ![f] = AfterSubscribe(@)]
    /\ UNCHANGED <<refresh, auth, probe>>

\* Lines 125-129 with the error passed over instead of raised.
ItemErrorLogged(s, error) == s

\* Lines 125-129.
ItemErrorBranch(s, error) ==
    Fails([s EXCEPT !.ws = ExitClient(@)],
          AuthenticationError(
              ErrorReason(error) \o ": "
                  \o ErrorMessage(error, "Token retrieval failed")))

\* Lines 131-132.
ItemDecodeToken(s, data) ==
    LET decoded == TokenFromGraphql(data)
        left == [s EXCEPT !.ws = ExitClient(@)]
    IN  IF decoded.ok
        THEN [left EXCEPT !.pc = "Approved", !.outcome = Returned(decoded.value)]
        ELSE Fails(left, decoded.exc)

\* An item with neither branch leaving the loop (a `break`), so that line
\* 134 is reached with the stream still delivering.
ItemSkippedBreaks(s) ==
    Fails([s EXCEPT !.ws = ExitClient(@)],
          AuthenticationError("Subscription ended without receiving token"))

\* An item with neither branch treated as a failure of the wait.
ItemSkippedFails(s) ==
    Fails([s EXCEPT !.ws = ExitClient(@)],
          AuthenticationError("UNKNOWN: Token retrieval failed"))

\* Lines 119 and 131: neither `if` taken, the loop goes on to the next item.
ItemSkipped(s) == s

\* The token branch looked at before the error branch.
AfterItemTokenFirst(s, item) ==
    LET payload == item.payload
        got == [s EXCEPT !.consumed = Append(@, item)]
    IN  IF Truthy(payload, "token") THEN ItemDecodeToken(got, payload.token)
        ELSE IF Truthy(payload, "error") THEN ItemErrorBranch(got, payload.error)
        ELSE ItemSkipped(got)

\* Lines 119-132: one turn of the `async for`.
AfterItem(s, item) ==
    LET payload == item.payload
        got == [s EXCEPT !.consumed = Append(@, item)]
    IN  IF Truthy(payload, "error") THEN ItemErrorBranch(got, payload.error)
        ELSE IF Truthy(payload, "token") THEN ItemDecodeToken(got, payload.token)
        ELSE ItemSkipped(got)

ReceiveItem(f, item) ==
    /\ flow[f].pc = "AwaitingApproval"
    /\ Len(flow[f].consumed) < MaxItems
    /\ flow' = [flow EXCEPT ![f] = AfterItem(@, item)]
    /\ UNCHANGED <<refresh, auth, probe>>

\* Falling off the end of the function instead of line 134.
\* The end of the stream passed over: the wait goes on.
AfterStreamEndKeepsWaiting(s) == [s EXCEPT !.stream_ended = TRUE]

AfterStreamEndReturnsNone(s) ==
    [s EXCEPT !.pc = "Approved",
              !.stream_ended = TRUE,
              !.ws = ExitClient(@),
              !.outcome = Returned(None)]

\* Lines 119 and 134: the subscription's generator is exhausted.
AfterStreamEnd(s) ==
    Fails([s EXCEPT !.stream_ended = TRUE, !.ws = ExitClient(@)],
          AuthenticationError("Subscription ended without receiving token"))

StreamEnd(f) ==
    /\ flow[f].pc = "AwaitingApproval"
    /\ flow' = [flow EXCEPT ![f] = AfterStreamEnd(@)]
    /\ UNCHANGED <<refresh, auth, probe>>

\* The websocket client left open when the wait is cancelled.
AfterAwaitRaisesLeak(s, exc) ==
    IF s.pc = "AwaitingRequest"
    THEN Fails([s EXCEPT !.http = ExitClient(@)], exc)
    ELSE Fails(s, exc)

\* Lines 72-76 and 115-122: an await inside an `async with` block raises;
\* the block is left and the exception reaches the caller.
AfterAwaitRaises(s, exc) ==
    IF s.pc = "AwaitingRequest"
    THEN Fails([s EXCEPT !.http = ExitClient(@)], exc)
    ELSE Fails([s EXCEPT !.ws = ExitClient(@)], exc)

AwaitRaises(f, exc) ==
    /\ flow[f].pc \in {"AwaitingRequest", "AwaitingApproval"}
    /\ flow' = [flow EXCEPT ![f] = AfterAwaitRaises(@, exc)]
    /\ UNCHANGED <<refresh, auth, probe>>

----------------------------------------------------------------------------
\* refresh_token

RefreshVariablesWithRequestId(refresh_token) ==
    [refreshToken |-> refresh_token, requestId |-> "r1"]

\* Line 157: variable_values of the refresh mutation.
RefreshVariables(refresh_token) == [refreshToken |-> refresh_token]

\* Lines 149-158.
BeginRefresh(r, token) ==
    /\ refresh[r].pc = "NotStarted"
    /\ refresh' = [refresh EXCEPT ![r] =
                      [@ EXCEPT !.pc = "AwaitingToken",
                                !.refresh_token = token,
                                !.sent = Append(@, RefreshVariables(token)),
                                !.http = EnterClient(@)]]
    /\ UNCHANGED <<flow, auth, probe>>

\* Lines 161-165.
RefreshErrorBranch(s, error) ==
    Fails(s, TokenRefreshError(
                 ErrorReason(error),
                 ErrorMessage(error, "Token refresh failed")))

\* Lines 167-168.
RefreshNoToken(s) ==
    Fails(s, TokenRefreshError("NO_TOKEN", "No token returned from refresh"))

\* Line 170.
RefreshDecodeToken(s, data) ==
    LET decoded == TokenFromGraphql(data)
    IN  IF decoded.ok
        THEN [s EXCEPT !.pc = "Refreshed", !.outcome = Returned(decoded.value)]
        ELSE Fails(s, decoded.exc)

\* Lines 155-170: the response arrives; every way out of the block leaves
\* the client.
AfterRefreshResponse(s, payload) ==
    LET left == [s EXCEPT !.results = Append(@, payload), !.http = ExitClient(@)]
    IN  IF Truthy(payload, "error") THEN RefreshErrorBranch(left, payload.error)
        ELSE IF ~Truthy(payload, "token") THEN RefreshNoToken(left)
        ELSE RefreshDecodeToken(left, payload.token)

RefreshResponse(r, payload) ==
    /\ refresh[r].pc = "AwaitingToken"
    /\ refresh' = [refresh EXCEPT ![r] = AfterRefreshResponse(@, payload)]
    /\ UNCHANGED <<flow, auth, probe>>

\* Lines 151-158: the await raises; the block is left.
RefreshAwaitRaises(r, exc) ==
    /\ refresh[r].pc = "AwaitingToken"
    /\ refresh' = [refresh EXCEPT ![r] =
                      Fails([@ EXCEPT !.http = ExitClient(@)], exc)]
    /\ UNCHANGED <<flow, auth, probe>>

----------------------------------------------------------------------------

Next ==
    \/ \E f \in FlowIds, cb \in Callbacks : BeginFlow(f, cb)
    \/ \E f \in FlowIds, payload \in StartPayloads : StartResponse(f, payload)
    \/ \E f \in FlowIds : NotifyCaller(f)
    \/ \E f \in FlowIds : OpenSubscription(f)
    \/ \E f \in FlowIds, item \in Notifications : ReceiveItem(f, item)
    \/ \E f \in FlowIds : StreamEnd(f)
    \/ \E f \in FlowIds, exc \in AwaitExceptions : AwaitRaises(f, exc)
    \/ \E r \in RefreshIds, token \in RefreshTokens : BeginRefresh(r, token)
    \/ \E r \in RefreshIds, payload \in RefreshPayloads : RefreshResponse(r, payload)
    \/ \E r \in RefreshIds, exc \in AwaitExceptions : RefreshAwaitRaises(r, exc)

Spec == Init /\ [][Next]_vars

----------------------------------------------------------------------------
\* Vocabulary of the properties

\* The payload carries the branch `k`: the key is there, with an object that
\* has at least one field.
Carries(payload, k) == k \in DOMAIN payload /\ payload[k] # EmptyDict

\* The payload carries neither its success branch `k` nor an error branch.
Neither(payload, k) == ~Carries(payload, k) /\ ~Carries(payload, "error")

FlowDone(s) == s.pc \in {"Approved", "Failed"}

RefreshDone(s) == s.pc \in {"Refreshed", "Failed"}

LastItem(s) == s.consumed[Len(s.consumed)]

----------------------------------------------------------------------------
\* The fallback chain: reason, else code; message, else the default.
Normalised(error, reason, message, default) ==
    /\ "reason" \in DOMAIN error => reason = error.reason
    /\ ("reason" \notin DOMAIN error /\ "code" \in DOMAIN error) => reason = error.code
    /\ "message" \in DOMAIN error => message = error.message
    /\ "message" \notin DOMAIN error => message = default

\* C1: whenever the start-flow response carries an error branch, the
\* invocation fails with AuthenticationFlowError(reason, message), and in
\* no state of the execution has on_request been called or a subscription
\* been opened.
C1_ErrorBranchStopsFlow ==
    \A f \in DOMAIN flow :
        LET s == flow[f]
        IN  (s.results # <<>> /\ Carries(s.results[1], "error")) =>
                /\ s.pc = "Failed"
                /\ s.outcome.kind = "AuthenticationFlowError"
                /\ Normalised(s.results[1].error, s.outcome.reason,
                              s.outcome.message, "Authentication flow failed")
                /\ s.callback_args = <<>>
                /\ s.subscribed = <<>>
                /\ s.ws.opens = 0

C1_Witness ==
    \E f \in DOMAIN flow :
        /\ flow[f].on_request = "returns"
        /\ flow[f].results # <<>>
        /\ Carries(flow[f].results[1], "request")
        /\ Carries(flow[f].results[1], "error")
        /\ flow[f].results[1].error =
               [code |-> "EXPIRED", reason |-> "RATE_LIMITED", message |-> "slow down"]
        /\ flow[f].outcome = AuthenticationFlowError("RATE_LIMITED", "slow down")
        /\ flow[f].pc = "Failed"

\* C2 as stated: the subscription is opened with the id of the request of
\* the invocation's start-flow response, and a token is accepted only from
\* a notification correlated to that id.
C2_OnlyCorrelatedTokenAccepted ==
    \A f \in DOMAIN flow :
        LET s == flow[f]
        IN  /\ s.subscribed # <<>> =>
                s.subscribed = <<[requestId |-> s.results[1].request.id]>>
            /\ s.pc = "Approved" =>
                LastItem(s).requestId = s.results[1].request.id

\* C2 as amended: the subscription is opened once, with the id of the
\* request of the invocation's start-flow response; the token returned is
\* the one decoded from the last notification consumed on that subscription,
\* whichever request the server created that notification for.
C2_SubscribedWithDecodedId ==
    \A f \in DOMAIN flow :
        LET s == flow[f]
        IN  /\ s.subscribed # <<>> =>
                s.subscribed = <<[requestId |-> s.results[1].request.id]>>
            /\ s.pc = "Approved" =>
                /\ s.subscribed # <<>>
                /\ Carries(LastItem(s).payload, "token")
                /\ s.outcome =
                       Returned(TokenFromGraphql(LastItem(s).payload.token).value)

C2_Witness ==
    \E f \in DOMAIN flow :
        /\ flow[f].pc = "Approved"
        /\ flow[f].subscribed = <<[requestId |-> "r2"]>>
        /\ LastItem(flow[f]).requestId = "r1"

\* C3: a flow invocation never holds the start-flow connection and the
\* subscription connection open at the same time: whenever the subscription
\* connection has been opened, the start-flow connection is already closed.
C3_AtMostOneConnection ==
    \A f \in DOMAIN flow :
        LET s == flow[f]
        IN  /\ ~(IsOpen(s.http) /\ IsOpen(s.ws))
            /\ s.ws.opens > 0 => (s.http.opens = 1 /\ s.http.closes = 1)

C3_Witness ==
    \E f \in DOMAIN flow :
        /\ IsOpen(flow[f].ws)
        /\ ~IsOpen(flow[f].http)
        /\ flow[f].http.closes = 1

\* C4: every connection an operation opens is closed exactly once on every
\* way out (return, error branch, missing success branch, decode failure,
\* callback raising, await raising or cancelled), and none is open once the
\* operation has terminated.
C4_ConnectionsReleased ==
    /\ \A f \in DOMAIN flow :
           LET s == flow[f]
           IN  /\ s.http.closes <= s.http.opens /\ s.http.opens <= 1
               /\ s.ws.closes <= s.ws.opens /\ s.ws.opens <= 1
               /\ s.pc # "NotStarted" => s.http.opens = 1
               /\ s.pc \in {"RequestDecoded", "Notified", "AwaitingApproval"} =>
                      s.http.closes = 1
               /\ FlowDone(s) =>
                      /\ s.http.closes = s.http.opens
                      /\ s.ws.closes = s.ws.opens
    /\ \A r \in DOMAIN refresh :
           LET s == refresh[r]
           IN  /\ s.http.closes <= s.http.opens /\ s.http.opens <= 1
               /\ s.pc # "NotStarted" => s.http.opens = 1
               /\ RefreshDone(s) => s.http.closes = 1

C4_Witness ==
    \E f \in DOMAIN flow :
        /\ flow[f].pc = "Failed"
        /\ flow[f].outcome = [kind |-> "CancelledError"]
        /\ flow[f].consumed # <<>>
        /\ flow[f].ws.opens = 1
        /\ flow[f].ws.closes = 1
        /\ flow[f].http.closes = 1

\* C5: items are consumed one at a time, in order; the first item carrying
\* an error branch fails the flow at once with
\* AuthenticationError("reason: message"), the first item carrying a token
\* (and no error) ends the wait with the token decoded from it (its refresh
\* token None when the item has none), and no item is consumed after either.
C5_FirstDecidingItemEndsWait ==
    \A f \in DOMAIN flow :
        LET s == flow[f]
        IN  \A i \in 1..Len(s.consumed) :
                LET p == s.consumed[i].payload
                IN  /\ Carries(p, "error") =>
                           /\ i = Len(s.consumed)
                           /\ s.pc = "Failed"
                           /\ s.outcome.kind = "AuthenticationError"
                           /\ \E reason \in {"EXPIRED", "RATE_LIMITED", "UNKNOWN"},
                                 message \in {"slow down", "Token retrieval failed"} :
                                  /\ s.outcome.text = reason \o ": " \o message
                                  /\ Normalised(p.error, reason, message,
                                                "Token retrieval failed")
                    /\ (~Carries(p, "error") /\ Carries(p, "token")) =>
                           /\ i = Len(s.consumed)
                           /\ FlowDone(s)
                           /\ TokenFromGraphql(p.token).ok =>
                                  /\ s.pc = "Approved"
                                  /\ s.outcome = Returned(TokenFromGraphql(p.token).value)
                                  /\ s.outcome.value.access_token = p.token.accessToken
                                  /\ "refreshToken" \notin DOMAIN p.token =>
                                         s.outcome.value.refresh_token = None
                    /\ s.pc = "Approved" => Carries(LastItem(s).payload, "token")

C5_Witness ==
    \E f \in DOMAIN flow :
        /\ flow[f].pc = "Approved"
        /\ Len(flow[f].consumed) = 2
        /\ LastItem(flow[f]).payload = [token |-> TokenA]
        /\ flow[f].outcome.value.access_token = "tok_abc"
        /\ flow[f].outcome.value.scopes = <<<<"AuthenticationScope", "OFFLINE">>>>
        /\ flow[f].outcome.value.refresh_token = None

\* C6: when the notification stream ends (every item it delivered, if any,
\* having been passed over), the flow fails with
\* AuthenticationError("Subscription ended without receiving token") and
\* returns no token.
C6_StreamEndFails ==
    \A f \in DOMAIN flow :
        LET s == flow[f]
        IN  s.stream_ended =>
                /\ s.pc = "Failed"
                /\ s.outcome =
                       AuthenticationError("Subscription ended without receiving token")
                /\ \A i \in 1..Len(s.consumed) :
                       Neither(s.consumed[i].payload, "token")

C6_Witness ==
    \E f \in DOMAIN flow :
        /\ flow[f].stream_ended
        /\ flow[f].consumed = <<>>
        /\ flow[f].pc = "Failed"

C7_StartAndRefresh ==
    /\ \A f \in DOMAIN flow :
           LET s == flow[f]
           IN  (s.results # <<>> /\ Neither(s.results[1], "request")) =>
                   /\ s.pc = "Failed"
                   /\ s.outcome = AuthenticationFlowError(
                          "NO_REQUEST", "No authentication request returned")
                   /\ s.subscribed = <<>>
    /\ \A r \in DOMAIN refresh :
           LET s == refresh[r]
           IN  (s.results # <<>> /\ Neither(s.results[1], "token")) =>
                   /\ s.pc = "Failed"
                   /\ s.outcome = TokenRefreshError(
                          "NO_TOKEN", "No token returned from refresh")

\* C7 as stated: a response with neither branch yields the missing-payload
\* error of its operation: NO_REQUEST for start flow, NO_TOKEN for refresh,
\* and a failed wait for a notification.
C7_NeitherBranchFails ==
    /\ C7_StartAndRefresh
    /\ \A f \in DOMAIN flow :
           \A i \in 1..Len(flow[f].consumed) :
               Neither(flow[f].consumed[i].payload, "token") =>
                   flow[f].pc = "Failed"

\* C7 as amended: a response with neither branch yields NO_REQUEST for
\* start flow and NO_TOKEN for refresh; a notification with neither branch
\* yields nothing: it neither ends the wait nor produces the flow's result,
\* which only a later item, the end of the stream or a raising await decides.
C7_NeitherBranchSkipped ==
    /\ C7_StartAndRefresh
    /\ \A f \in DOMAIN flow :
           LET s == flow[f]
           IN  \A i \in 1..Len(s.consumed) :
                   (Neither(s.consumed[i].payload, "token") /\ i = Len(s.consumed)) =>
                       \/ s.pc = "AwaitingApproval"
                       \/ s.pc = "Failed" /\ s.stream_ended
                       \/ s.pc = "Failed" /\ s.outcome \in AwaitExceptions

C7_Witness ==
    /\ \E f \in DOMAIN flow :
           /\ flow[f].pc = "AwaitingApproval"
           /\ flow[f].consumed # <<>>
           /\ Neither(LastItem(flow[f]).payload, "token")
    /\ \E r \in DOMAIN refresh :
           /\ refresh[r].results = <<EmptyDict>>
           /\ refresh[r].outcome.kind = "TokenRefreshError"

\* C8: in the three operations an error object (with at least one field) is
\* reported with its reason, else its code, and with its message, else the
\* operation's default ("Authentication flow failed", "Token retrieval
\* failed", "Token refresh failed").
C8_ErrorNormalization ==
    /\ \A f \in DOMAIN flow :
           LET s == flow[f]
           IN  /\ (s.results # <<>> /\ Carries(s.results[1], "error")) =>
                      /\ s.outcome.kind = "AuthenticationFlowError"
                      /\ Normalised(s.results[1].error, s.outcome.reason,
                                    s.outcome.message, "Authentication flow failed")
               /\ (s.consumed # <<>> /\ Carries(LastItem(s).payload, "error")) =>
                      /\ s.outcome.kind = "AuthenticationError"
                      /\ \E reason \in {"EXPIRED", "RATE_LIMITED", "UNKNOWN"},
                            message \in {"slow down", "Token retrieval failed"} :
                             /\ s.outcome.text = reason \o ": " \o message
                             /\ Normalised(LastItem(s).payload.error, reason,
                                           message, "Token retrieval failed")
    /\ \A r \in DOMAIN refresh :
           LET s == refresh[r]
           IN  (s.results # <<>> /\ Carries(s.results[1], "error")) =>
                   /\ s.outcome.kind = "TokenRefreshError"
                   /\ Normalised(s.results[1].error, s.outcome.reason,
                                 s.outcome.message, "Token refresh failed")

C8_Witness ==
    /\ \E r \in DOMAIN refresh :
           /\ refresh[r].results = <<[error |-> [code |-> "EXPIRED"]]>>
           /\ refresh[r].outcome = TokenRefreshError("EXPIRED", "Token refresh failed")
    /\ \E f \in DOMAIN flow :
           /\ flow[f].consumed # <<>>
           /\ LastItem(flow[f]).payload = [error |-> [code |-> "EXPIRED", reason |-> "RATE_LIMITED"]]
           /\ flow[f].outcome = AuthenticationError("RATE_LIMITED: Token retrieval failed")

ClassifiedKinds ==
    {"DecodeError", "AuthenticationFlowError", "AuthenticationError",
     "TokenRefreshError"}

\* What passes through an operation from outside it.
PassedThrough == AwaitExceptions \cup {CallbackError}

\* C9: every failure of start_authentication_flow (its waiting step
\* included) and of refresh_token that the operation itself raises is a
\* DecodeError, an AuthenticationFlowError, an AuthenticationError or a
\* TokenRefreshError; a payload that cannot be decoded fails with DecodeError.
C9_FailuresAreClassified ==
    /\ \A f \in DOMAIN flow :
           (flow[f].pc = "Failed" /\ flow[f].outcome \notin PassedThrough) =>
               flow[f].outcome.kind \in ClassifiedKinds
    /\ \A r \in DOMAIN refresh :
           (refresh[r].pc = "Failed" /\ refresh[r].outcome \notin PassedThrough) =>
               refresh[r].outcome.kind \in ClassifiedKinds

C10_CallbackCalled ==
    \A f \in DOMAIN flow :
        LET s == flow[f]
        IN  /\ s.callback_args # <<>> =>
                /\ s.on_request # "none"
                /\ s.callback_args = <<RequestFromGraphql(s.results[1].request).value>>
            /\ (s.on_request # "none" /\ s.pc \in {"Notified", "AwaitingApproval", "Approved"}) =>
                Len(s.callback_args) = 1
            /\ (s.on_request # "none" /\ s.ws.opens > 0) => Len(s.callback_args) = 1
            /\ (s.on_request = "raises" /\ s.callback_args # <<>>) =>
                /\ s.pc = "Failed"
                /\ s.outcome = CallbackError
                /\ s.subscribed = <<>>
                /\ s.ws.opens = 0
                /\ ~IsOpen(s.http)

C10_CallbackStep ==
    \A f \in DOMAIN flow :
        flow'[f].callback_args # flow[f].callback_args =>
            /\ flow[f].http.closes = 1
            /\ ~IsOpen(flow[f].http)
            /\ flow[f].ws.opens = 0
            /\ flow'[f].ws.opens = 0
            /\ flow[f].callback_args = <<>>

----------------------------------------------------------------------------
\* C11: the docstring of start_authentication_flow numbers "starts a
\* subscription" before "calls the callback": whenever on_request has been
\* called, the invocation has already opened its subscription.
C11_SubscribedBeforeCallback ==
    \A f \in DOMAIN flow :
        flow[f].callback_args # <<>> =>
            /\ flow[f].ws.opens > 0
            /\ flow[f].subscribed # <<>>

----------------------------------------------------------------------------
\* The state of the per-invocation state machine a position of the code
\* belongs to: between the start-flow response and the opening of the
\* subscription the invocation is still on its way to AwaitingApproval.
Stage(s) ==
    IF s.pc \in {"RequestDecoded", "Notified"} THEN "AwaitingRequest" ELSE s.pc

StageRank(s) ==
    CASE s.pc = "NotStarted" -> 0
      [] s.pc = "AwaitingRequest" -> 1
      [] s.pc = "RequestDecoded" -> 2
      [] s.pc = "Notified" -> 3
      [] s.pc = "AwaitingApproval" -> 4
      [] OTHER -> 5

StageMoves ==
    {<<"NotStarted", "AwaitingRequest">>,
     <<"AwaitingRequest", "AwaitingApproval">>,
     <<"AwaitingRequest", "Failed">>,
     <<"AwaitingApproval", "Approved">>,
     <<"AwaitingApproval", "Failed">>}

C12_AtMostOnce ==
    \A f \in DOMAIN flow :
        /\ flow[f].sent <= 1
        /\ Len(flow[f].results) <= flow[f].sent
        /\ Len(flow[f].subscribed) <= 1
        /\ flow[f].http.opens <= 1
        /\ flow[f].ws.opens <= 1
        /\ flow[f].sent = 0 <=> flow[f].pc = "NotStarted"
        /\ flow[f].subscribed # <<>> =>
               Stage(flow[f]) \in {"AwaitingApproval", "Approved", "Failed"}

C12_StageStep ==
    \A f \in DOMAIN flow :
        /\ FlowDone(flow[f]) => flow'[f] = flow[f]
        /\ StageRank(flow'[f]) >= StageRank(flow[f])
        /\ Stage(flow'[f]) # Stage(flow[f]) =>
               <<Stage(flow[f]), Stage(flow'[f])>> \in StageMoves
        /\ flow'[f].sent >= flow[f].sent
        /\ Len(flow'[f].subscribed) >= Len(flow[f].subscribed)

\* C12: every invocation walks NotStarted -> AwaitingRequest ->
\* AwaitingApproval -> {Approved | Failed}: a terminal invocation takes no
\* further step, no state is re-entered once left, and one invocation sends
\* at most one start-flow request and opens at most one subscription.
C12_StateMachine == []C12_AtMostOnce /\ [][C12_StageStep]_vars

C12_Witness ==
    \E f \in DOMAIN flow :
        /\ flow[f].pc = "Approved"
        /\ flow[f].sent = 1
        /\ Len(flow[f].subscribed) = 1
        /\ Len(flow[f].consumed) = 2

----------------------------------------------------------------------------
\* Concurrent invocations on one CaidoAuth instance: two flows and two
\* refresh calls whose steps interleave at their await points.

ConcFlowIds == {"flow1", "flow2"}

ConcRefreshIds == {"refresh1", "refresh2"}

ConcStartPayloads ==
    {[request |-> RequestObject(id, StampZ)] : id \in RequestIds}
        \cup {[error |-> [code |-> "EXPIRED"]]}

ConcNotifications ==
    {[payload |-> [token |-> TokenA], requestId |-> "r1"],
     [payload |-> [token |-> TokenB], requestId |-> "r2"],
     [payload |-> EmptyDict, requestId |-> "r1"]}

ConcRefreshPayloads == {[token |-> TokenB], EmptyDict}

ConcExceptions == {[kind |-> "CancelledError"]}

InitConc ==
    /\ flow = [f \in ConcFlowIds |-> InitFlow]
    /\ refresh = [r \in ConcRefreshIds |-> InitRefresh]
    /\ auth \in {CaidoAuth(url) : url \in InstanceUrls}
    /\ probe = NoProbe

NextConc ==
    \/ \E f \in DOMAIN flow : BeginFlow(f, "returns")
    \/ \E f \in DOMAIN flow, payload \in ConcStartPayloads : StartResponse(f, payload)
    \/ \E f \in DOMAIN flow : NotifyCaller(f)
    \/ \E f \in DOMAIN flow : OpenSubscription(f)
    \/ \E f \in DOMAIN flow, item \in ConcNotifications : ReceiveItem(f, item)
    \/ \E f \in DOMAIN flow : StreamEnd(f)
    \/ \E f \in DOMAIN flow, exc \in ConcExceptions : AwaitRaises(f, exc)
    \/ \E r \in DOMAIN refresh : BeginRefresh(r, "rt_1")
    \/ \E r \in DOMAIN refresh, payload \in ConcRefreshPayloads : RefreshResponse(r, payload)
    \/ \E r \in DOMAIN refresh, exc \in ConcExceptions : RefreshAwaitRaises(r, exc)

SpecConc == InitConc /\ [][NextConc]_vars

\* What reaches one flow invocation from outside: its argument, the
\* responses on its own connections and an exception raised into its awaits.
FlowInputs(s) ==
    <<s.on_request, s.results, s.consumed, s.stream_ended,
      IF s.outcome \in AwaitExceptions THEN s.outcome ELSE NoOutcome>>

RefreshInputs(s) ==
    <<s.refresh_token, s.results,
      IF s.outcome \in AwaitExceptions THEN s.outcome ELSE NoOutcome>>

C13_OwnState ==
    /\ \A f \in DOMAIN flow :
           /\ flow[f].http.opens <= 1 /\ flow[f].ws.opens <= 1
           /\ flow[f].subscribed # <<>> =>
                  /\ Carries(flow[f].results[1], "request")
                  /\ flow[f].subscribed =
                         <<[requestId |-> flow[f].results[1].request.id]>>
    /\ \A r \in DOMAIN refresh :
           /\ refresh[r].http.opens <= 1
           /\ refresh[r].sent # <<>> =>
                  refresh[r].sent = <<[refreshToken |-> refresh[r].refresh_token]>>
    /\ \A f, g \in DOMAIN flow :
           FlowDone(flow[f]) /\ FlowDone(flow[g])
               /\ FlowInputs(flow[f]) = FlowInputs(flow[g])
               => flow[f] = flow[g]
    /\ \A r, q \in DOMAIN refresh :
           RefreshDone(refresh[r]) /\ RefreshDone(refresh[q])
               /\ RefreshInputs(refresh[r]) = RefreshInputs(refresh[q])
               => refresh[r] = refresh[q]

C13_OwnStep ==
    /\ auth' = auth
    /\ \A f \in DOMAIN flow :
           flow'[f] # flow[f] =>
               /\ \A g \in DOMAIN flow \ {f} : flow'[g] = flow[g]
               /\ refresh' = refresh
    /\ \A r \in DOMAIN refresh :
           refresh'[r] # refresh[r] =>
               /\ \A q \in DOMAIN refresh \ {r} : refresh'[q] = refresh[q]
               /\ flow' = flow

\* C13: in every interleaving of concurrent flow and refresh invocations on
\* one instance, each invocation has its own connections and subscribes
\* with its own request id, the instance's attributes never change, a step
\* of one invocation changes nothing of another, and two invocations given
\* the same responses end the same way whatever the others did.
C13_InvocationsIndependent == []C13_OwnState /\ [][C13_OwnStep]_vars

C13_Witness ==
    /\ IsOpen(flow["flow1"].ws) /\ IsOpen(flow["flow2"].ws)
    /\ flow["flow1"].subscribed = <<[requestId |-> "r1"]>>
    /\ flow["flow2"].subscribed = <<[requestId |-> "r2"]>>
    /\ IsOpen(refresh["refresh1"].http) /\ refresh["refresh2"].pc = "Refreshed"
    /\ auth = CaidoAuth(Url("https", "caido.example", "/"))
    /\ auth._websocket_url = Url("wss", "caido.example", "/ws/graphql")

----------------------------------------------------------------------------
\* AuthenticationToken.is_expired, evaluated on its own: a token is decoded
\* from its wire form and asked whether it has expired.

\* The largest wall-clock reading (in minutes) a wire timestamp shows.
MaxClock == 2

\* The suffixes expiresAt is written with: Z, an offset, or none.
ExpirySuffixes == {"Z", ""} \cup IsoOffsets

ExpiryStamps == [clock : 0..MaxClock, suffix : ExpirySuffixes]

\* The UTC offset (in minutes) of the machine's local zone.
LocalOffsets == {0, 60}

\* The evaluation instants (UTC minutes): around every instant a stamp can
\* denote.
EvaluationInstants ==
    UNION {{c - o - 1, c - o, c - o + 1} :
               c \in 0..MaxClock, o \in {OffsetMinutes(x) : x \in IsoOffsets}}

\* datetime.now(tz) at the instant `now`: the reading of a clock in tz, or
\* the machine's local reading, naive, when tz is None.
DatetimeNow(like, now, local) ==
    IF like.aware
    THEN [clock |-> now + like.utcoffset, aware |-> TRUE, utcoffset |-> like.utcoffset]
    ELSE [clock |-> now + local, aware |-> FALSE, utcoffset |-> 0]

\* a > b (the boundary not counted).
DatetimeGt(a, b) == a.clock - a.utcoffset > b.clock - b.utcoffset

\* a >= b for two aware datetimes (instants compared) or two naive ones
\* (readings compared; their utcoffset is 0 in this model).
DatetimeGe(a, b) == a.clock - a.utcoffset >= b.clock - b.utcoffset

\* AuthenticationToken.is_expired.
IsExpired(token, now, local) ==
    DatetimeGe(DatetimeNow(token.expires_at, now, local), token.expires_at)

InitExpiry ==
    /\ flow = [f \in FlowIds |-> InitFlow]
    /\ refresh = [r \in RefreshIds |-> InitRefresh]
    /\ auth = CaidoAuth(Url("http", "localhost:8080", ""))
    /\ probe \in [op : {"is_expired"},
                  data : {[TokenA EXCEPT !.expiresAt = s] : s \in ExpiryStamps},
                  now : EvaluationInstants,
                  local : LocalOffsets,
                  result : {NoOutcome}]

\* token = AuthenticationToken.from_graphql(data); token.is_expired()
EvaluateIsExpired ==
    /\ probe.op = "is_expired"
    /\ probe.result = NoOutcome
    /\ probe' = [probe EXCEPT !.result =
                     Returned(IsExpired(TokenFromGraphql(probe.data).value,
                                        probe.now, probe.local))]
    /\ UNCHANGED <<flow, refresh, auth>>

NextExpiry == EvaluateIsExpired

SpecExpiry == InitExpiry /\ [][NextExpiry]_vars

\* The instant (UTC minutes) a timestamp written with a zone denotes.
WrittenInstant(stamp) ==
    stamp.clock - (CASE stamp.suffix = "+01:00" -> 60
                     [] stamp.suffix = "-05:00" -> 0 - 300
                     [] OTHER -> 0)

\* C14: for a token whose expiresAt is written with Z or an offset,
\* is_expired() is FALSE when the instant it denotes is strictly after the
\* evaluation instant and TRUE at or before it (the boundary is expired),
\* whichever offset it was written with and whatever the machine's zone.
C14_ExpiredAtOrAfterExpiry ==
    (probe.op = "is_expired" /\ probe.result # NoOutcome
         /\ probe.data.expiresAt.suffix # "")
        => probe.result =
               Returned(WrittenInstant(probe.data.expiresAt) <= probe.now)

C14_Witness ==
    /\ probe.op = "is_expired"
    /\ probe.data.expiresAt.suffix = "+01:00"
    /\ WrittenInstant(probe.data.expiresAt) = probe.now
    /\ probe.local = 60
    /\ probe.result = Returned(TRUE)

----------------------------------------------------------------------------
\* AuthenticationToken.from_graphql, evaluated on its own over the scope
\* lists a token object can carry.

\* The longest scope list decoded.
MaxScopes == 3

\* The strings of a wire scope list: the three values and one that no
\* member has.
WireScopes == {ScopeValue(name) : name \in ScopeNames} \cup {"ADMIN"}

WireScopeLists == UNION {[1..n -> WireScopes] : n \in 0..MaxScopes}

InitScopes ==
    /\ flow = [f \in FlowIds |-> InitFlow]
    /\ refresh = [r \in RefreshIds |-> InitRefresh]
    /\ auth = CaidoAuth(Url("http", "localhost:8080", ""))
    /\ probe \in [op : {"from_graphql"},
                  data : {[TokenB EXCEPT !.scopes = l] : l \in WireScopeLists},
                  result : {NoOutcome}]

\* AuthenticationToken.from_graphql(data): the token, or the exception.
DecodeToken ==
    /\ probe.op = "from_graphql"
    /\ probe.result = NoOutcome
    /\ probe' = [probe EXCEPT !.result =
                     LET decoded == TokenFromGraphql(probe.data)
                     IN  IF decoded.ok THEN Returned(decoded.value)
                         ELSE decoded.exc]
    /\ UNCHANGED <<flow, refresh, auth>>

NextScopes == DecodeToken

SpecScopes == InitScopes /\ [][NextScopes]_vars

\* The wire form of a list of members.
EncodeScopes(scopes) == [i \in DOMAIN scopes |-> ScopeValue(scopes[i][2])]

\* C15: a token whose wire scope list holds only values of ASSISTANT,
\* OFFLINE and PROFILE_READ (the empty list included) decodes to the same
\* members in the same order and number, duplicates kept; a token with any
\* other scope string does not decode at all.
C15_ScopesRoundTrip ==
    (probe.op = "from_graphql" /\ probe.result # NoOutcome) =>
        LET wire == probe.data.scopes
        IN  IF \A i \in DOMAIN wire : wire[i] \in {"ASSISTANT", "OFFLINE", "PROFILE_READ"}
            THEN /\ probe.result.kind = "return"
                 /\ Len(probe.result.value.scopes) = Len(wire)
                 /\ \A i \in DOMAIN wire :
                        /\ probe.result.value.scopes[i][1] = "AuthenticationScope"
                        /\ probe.result.value.scopes[i][2] \in ScopeNames
                 /\ EncodeScopes(probe.result.value.scopes) = wire
            ELSE probe.result = ValueError("scope")

C15_Witness ==
    /\ probe.op = "from_graphql"
    /\ probe.data.scopes = <<"OFFLINE", "ASSISTANT", "OFFLINE">>
    /\ probe.result.kind = "return"
    /\ Len(probe.result.value.scopes) = 3

----------------------------------------------------------------------------
\* What refresh_token makes of the one response it reads.
RefreshResultOf(payload) ==
    IF Carries(payload, "error")
    THEN TokenRefreshError(ErrorReason(payload.error),
                           ErrorMessage(payload.error, "Token refresh failed"))
    ELSE IF ~Carries(payload, "token")
    THEN TokenRefreshError("NO_TOKEN", "No token returned from refresh")
    ELSE LET decoded == TokenFromGraphql(payload.token)
         IN  IF decoded.ok THEN Returned(decoded.value) ELSE decoded.exc

C16_OneRoundTrip ==
    \A r \in DOMAIN refresh :
        /\ Len(refresh[r].sent) <= 1
        /\ Len(refresh[r].results) <= Len(refresh[r].sent)
        /\ refresh[r].http.opens <= 1
        /\ refresh[r].pc # "NotStarted" =>
               refresh[r].sent = <<[refreshToken |-> refresh[r].refresh_token]>>
        /\ refresh[r].results # <<>> =>
               /\ RefreshDone(refresh[r])
               /\ refresh[r].outcome = RefreshResultOf(refresh[r].results[1])
        /\ refresh[r].pc = "Refreshed" =>
               /\ refresh[r].results # <<>>
               /\ Carries(refresh[r].results[1], "token")

C16_RefreshStep ==
    \A r \in DOMAIN refresh :
        refresh'[r] # refresh[r] => flow' = flow /\ auth' = auth

\* C16: refresh_token sends one mutation whose only variable is the refresh
\* token it was given and reads one response; its steps open no
\* subscription, call no callback and touch no flow, and its result is what
\* that response alone determines, whatever state any flow is in.
C16_RefreshIndependent == []C16_OneRoundTrip /\ [][C16_RefreshStep]_vars

C16_Witness ==
    \E r \in DOMAIN refresh, f \in DOMAIN flow :
        /\ refresh[r].pc = "Refreshed"
        /\ refresh[r].sent = <<[refreshToken |-> "rt_2"]>>
        /\ refresh[r].outcome.kind = "return"
        /\ flow[f].pc = "AwaitingApproval"
        /\ IsOpen(flow[f].ws)
        /\ flow[f].callback_args # <<>>

----------------------------------------------------------------------------
\* Every item taken before the last one carried neither branch.
SkippedBefore(s, n) ==
    \A i \in 1..(n - 1) : Neither(s.consumed[i].payload, "token")

C17_SkippedItemKeepsWaiting ==
    \A f \in DOMAIN flow :
        (flow[f].consumed # <<>> /\ Neither(LastItem(flow[f]).payload, "token"))
            => /\ flow[f].pc \in {"AwaitingApproval", "Failed"}
               /\ flow[f].pc = "AwaitingApproval" =>
                      /\ IsOpen(flow[f].ws)
                      /\ flow[f].outcome = NoOutcome
                      /\ ~flow[f].stream_ended
               /\ flow[f].pc = "Failed" =>
                      \/ /\ flow[f].stream_ended
                         /\ flow[f].outcome = AuthenticationError(
                                "Subscription ended without receiving token")
                      \/ flow[f].outcome \in AwaitExceptions

C17_SkipStep ==
    \A f \in DOMAIN flow :
        (/\ flow[f].pc = "AwaitingApproval"
         /\ Len(flow'[f].consumed) = Len(flow[f].consumed) + 1)
            => LET item == LastItem(flow'[f]).payload
               IN  /\ SkippedBefore(flow'[f], Len(flow'[f].consumed))
                   /\ Neither(item, "token") =>
                          flow'[f] = [flow[f] EXCEPT
                                         !.consumed = flow'[f].consumed]
                   /\ ~Neither(item, "token") => FlowDone(flow'[f])
                   /\ Carries(item, "error") =>
                          /\ flow'[f].pc = "Failed"
                          /\ flow'[f].outcome.kind = "AuthenticationError"
                   /\ flow'[f].pc = "Approved" =>
                          /\ Carries(item, "token")
                          /\ flow'[f].outcome =
                                 Returned(TokenFromGraphql(item.token).value)

\* C17: an item carrying neither a token nor an error is skipped: the
\* invocation stays in AwaitingApproval with its subscription open and
\* nothing else changed, and it ends only on the first later item that
\* carries a token or an error, or when the stream closes (or the await
\* raises).
C17_SkippedItemsDoNotDecide ==
    []C17_SkippedItemKeepsWaiting /\ [][C17_SkipStep]_vars

C17_Witness ==
    \E f \in DOMAIN flow :
        /\ Len(flow[f].consumed) = 2
        /\ Neither(flow[f].consumed[1].payload, "token")
        /\ Carries(flow[f].consumed[2].payload, "token")
        /\ ~Carries(flow[f].consumed[2].payload, "error")
        /\ flow[f].pc = "Approved"

----------------------------------------------------------------------------
\* One flow invocation on its own, with what the event loop and the server
\* are assumed to do: the start-flow round trip completes, the callback
\* returns or raises, the websocket connects, and the stream sooner or
\* later delivers an item that carries a token or an error, or closes.

NextFlow ==
    \/ \E f \in FlowIds, cb \in Callbacks : BeginFlow(f, cb)
    \/ \E f \in FlowIds, payload \in StartPayloads : StartResponse(f, payload)
    \/ \E f \in FlowIds : NotifyCaller(f)
    \/ \E f \in FlowIds : OpenSubscription(f)
    \/ \E f \in FlowIds, item \in Notifications : ReceiveItem(f, item)
    \/ \E f \in FlowIds : StreamEnd(f)
    \/ \E f \in FlowIds, exc \in AwaitExceptions : AwaitRaises(f, exc)

RoundTripCompletes(f) == \E payload \in StartPayloads : StartResponse(f, payload)

StreamDecides(f) ==
    \/ StreamEnd(f)
    \/ \E item \in Notifications :
           /\ ~Neither(item.payload, "token")
           /\ ReceiveItem(f, item)

FlowFairness ==
    \A f \in FlowIds :
        /\ WF_vars(RoundTripCompletes(f))
        /\ WF_vars(NotifyCaller(f))
        /\ WF_vars(OpenSubscription(f))
        /\ WF_vars(StreamDecides(f))

SpecLive == Init /\ [][NextFlow]_vars /\ FlowFairness

\* While an invocation waits for approval nothing but its stream (an item,
\* the end of the stream, an exception raised into the await) moves it.
C18_OnlyStreamMoves ==
    \A f \in DOMAIN flow :
        (flow[f].pc = "AwaitingApproval" /\ flow'[f] # flow[f]) =>
            \/ Len(flow'[f].consumed) = Len(flow[f].consumed) + 1
            \/ flow'[f].stream_ended
            \/ flow'[f].outcome \in AwaitExceptions

\* C18: once started, an invocation whose start-flow round trip completes,
\* whose callback returns or raises and whose stream eventually delivers a
\* token or an error item or closes, eventually is Approved or Failed; the
\* code itself has no step (no timeout) that ends the wait for approval.
C18_EventuallyDone ==
    /\ \A f \in FlowIds : (flow[f].pc # "NotStarted") ~> FlowDone(flow[f])
    /\ [][C18_OnlyStreamMoves]_vars

C18_Witness ==
    \E f \in DOMAIN flow :
        /\ flow[f].pc = "Failed"
        /\ flow[f].stream_ended
        /\ flow[f].callback_args # <<>>
        /\ flow[f].consumed # <<>>
        /\ \A i \in DOMAIN flow[f].consumed :
               Neither(flow[f].consumed[i].payload, "token")

----------------------------------------------------------------------------
\* The payload carries both its success branch `k` and an error branch.
Both(payload, k) == Carries(payload, k) /\ Carries(payload, "error")

\* C19: a response carrying both an error branch and a success payload is
\* treated as an error by all three operations: the start flow fails with
\* AuthenticationFlowError with no request decoded, no callback call and no
\* subscription; the wait fails with AuthenticationError and returns no
\* token; the refresh fails with TokenRefreshError and returns no token.
C19_ErrorTakesPrecedence ==
    /\ \A f \in DOMAIN flow :
           LET s == flow[f]
           IN  /\ (s.results # <<>> /\ Both(s.results[1], "request")) =>
                      /\ s.pc = "Failed"
                      /\ s.outcome = AuthenticationFlowError(
                             ErrorReason(s.results[1].error),
                             ErrorMessage(s.results[1].error,
                                          "Authentication flow failed"))
                      /\ s.auth_request = EmptyDict
                      /\ s.callback_args = <<>>
                      /\ s.subscribed = <<>>
                      /\ s.ws = NoConnection
               /\ (s.consumed # <<>> /\ Both(LastItem(s).payload, "token")) =>
                      /\ s.pc = "Failed"
                      /\ s.outcome = AuthenticationError(
                             ErrorReason(LastItem(s).payload.error) \o ": " \o
                             ErrorMessage(LastItem(s).payload.error,
                                          "Token retrieval failed"))
                      /\ ~IsOpen(s.ws)
    /\ \A r \in DOMAIN refresh :
           LET s == refresh[r]
           IN  (s.results # <<>> /\ Both(s.results[1], "token")) =>
                   /\ s.pc = "Failed"
                   /\ s.outcome = TokenRefreshError(
                          ErrorReason(s.results[1].error),
                          ErrorMessage(s.results[1].error, "Token refresh failed"))

C19_Witness ==
    \E f \in DOMAIN flow, r \in DOMAIN refresh :
        /\ flow[f].consumed # <<>>
        /\ LastItem(flow[f]).payload = [token |-> TokenA, error |-> [code |-> "EXPIRED"]]
        /\ flow[f].outcome = AuthenticationError("EXPIRED: Token retrieval failed")
        /\ refresh[r].results = <<[token |-> TokenB, error |-> [code |-> "EXPIRED", message |-> "slow down"]]>>
        /\ refresh[r].outcome = TokenRefreshError("EXPIRED", "slow down")

====
